---- MODULE Spec2Model ----
(***************************************************************************)
(* Model of src/main.rs of rusty_embeddings: the packing loop of main that *)
(* turns tokenizer encodings into one padding-free Batch, the call of the  *)
(* encoder (model.forward), normalize_l2 and the final println.            *)
(*                                                                         *)
(* Numbers.  The code narrows usize to u32 with `as u32` (lines 172, 177,  *)
(* 178).  Every quantity of this model is below 2^31, where that cast      *)
(* keeps the value, so the lengths are plain naturals here.                *)
(* Tensor elements are f32 in the code.  The encoder output is drawn from  *)
(* small integers; a quotient x / sqrt(s) is kept symbolically as the      *)
(* record [kind |-> "fin", num |-> x, sq |-> s], and the IEEE results of a *)
(* division by zero are the records of kind "NaN" and "Inf".               *)
(***************************************************************************)
EXTENDS Integers, Sequences, FiniteSets

\* ---------------------------------------------------------------- bounds
\* At most MaxSeqs encodings come back from the tokenizer.
MaxSeqs == 2
\* Every encoding has at most MaxLen tokens.
MaxLen == 2

\* The (token id, type id) pairs an encoding is made of.
Tokens == { <<1, 0>>, <<2, 1>> }
\* The rows the encoder may return for one sequence (hidden size 2).
PooledRows == { <<0, 0>>, <<3, 4>>, <<-1, 0>>, <<1, 1>> }

\* ------------------------------------------------------ program constants
\* let position_offset = 2; // for roberta
position_offset == 2

VARIABLES
    normalize_embeddings, \* Args.normalize_embeddings, parsed from the command line
    encodings,            \* the Vec<Encoding> returned by encode_batch
    idx,                  \* number of encodings the for loop has consumed
    input_ids,
    token_type_ids,
    position_ids,
    cu_seq_lengths,
    current_tokens,
    max_length,
    batch,                \* the Batch built at lines 181-187
    forward_log,          \* the batches handed to model.forward, in call order
    ys,                   \* the tensor returned by model.forward
    embeddings,           \* the tensor returned by normalize_l2
    stdout,               \* what println! has written since the loop
    pc                    \* position of main

vars == << normalize_embeddings, encodings, idx, input_ids, token_type_ids,
           position_ids, cu_seq_lengths, current_tokens, max_length, batch,
           forward_log, ys, embeddings, stdout, pc >>

\* ------------------------------------------------------------- encodings
SeqsUpTo(S, n) == UNION { [1..k -> S] : k \in 0..n }

\* An Encoding: parallel id and type-id arrays, one entry per token.
EncodingOf(toks) ==
    [ ids      |-> [k \in 1..Len(toks) |-> toks[k][1]],
      type_ids |-> [k \in 1..Len(toks) |-> toks[k][2]] ]

Encodings == { EncodingOf(t) : t \in SeqsUpTo(Tokens, MaxLen) }

\* encoding.get_ids().to_vec()
get_ids(encoding) == encoding.ids
\* encoding.get_type_ids().to_vec()
get_type_ids(encoding) == encoding.type_ids
\* encoding.len()
EncodingLen(encoding) == Len(encoding.ids)

\* ------------------------------------------------- the packing loop's steps
\* (position_offset as u32..(seq_len + position_offset) as u32).collect()
PositionRangeUnshifted(seq_len) ==
    [k \in 1..(IF seq_len > position_offset THEN seq_len - position_offset ELSE 0)
        |-> position_offset + k - 1]
PositionRangeZeroBased(seq_len) == [k \in 1..seq_len |-> k - 1]
PositionRange(seq_len) == [k \in 1..seq_len |-> position_offset + k - 1]

\* current_tokens += entry_tokens
AddTokensLastOnly(tokens, entry_tokens) == entry_tokens
AddTokens(tokens, entry_tokens) == tokens + entry_tokens

\* max(max_length, entry_tokens as u32)
MaxLastOnly(a, b) == b
Max(a, b) == IF a >= b THEN a ELSE b

\* input_ids.extend(...) / token_type_ids.extend(...) / position_ids.extend(...)
ExtendFront(v, items) == items \o v
Extend(v, items) == v \o items

\* cu_seq_lengths.push(current_tokens as u32)
Push(v, x) == Append(v, x)

\* Batch { input_ids, token_type_ids, position_ids, cumulative_seq_lengths, max_length }
Batch(ids, types, positions, cu, maxlen) ==
    [ input_ids              |-> ids,
      token_type_ids         |-> types,
      position_ids           |-> positions,
      cumulative_seq_lengths |-> cu,
      max_length             |-> maxlen ]

\* The value of `batch` before line 181 has run.
NoBatch == Batch(<<>>, <<>>, <<>>, <<>>, 0)

\* ------------------------------------------------------------ normalize_l2
RECURSIVE SumSqr(_, _)
\* v.sqr()?.sum_keepdim(1)? for one row: the sum of the squares of row[1..k]
SumSqr(row, k) == IF k = 0 THEN 0 ELSE SumSqr(row, k - 1) + row[k] * row[k]

\* One element of broadcast_div(v, sqrt(s)): IEEE-754 division.
Div(x, s) ==
    IF s = 0
    THEN IF x = 0 THEN [kind |-> "NaN", num |-> 0, sq |-> 0]
                  ELSE [kind |-> "Inf", num |-> x, sq |-> 0]
    ELSE [kind |-> "fin", num |-> x, sq |-> s]

\* An element of a tensor that was not divided.
Raw(x) == [kind |-> "fin", num |-> x, sq |-> 1]

\* pub fn normalize_l2(v: &Tensor) -> Result<Tensor>, the Ok value
normalize_l2(v) ==
    [i \in 1..Len(v) |->
        [j \in 1..Len(v[i]) |-> Div(v[i][j], SumSqr(v[i], Len(v[i])))]]

\* ---------------------------------------------------------------- stdout
Line(text, value) == [text |-> text, value |-> value]

\* -------------------------------------------------------------- the program
Init ==
    /\ normalize_embeddings \in BOOLEAN
    /\ encodings \in SeqsUpTo(Encodings, MaxSeqs)
    /\ idx = 0
    /\ input_ids = <<>>
    /\ token_type_ids = <<>>
    /\ position_ids = <<>>
    /\ cu_seq_lengths = <<0>>
    /\ current_tokens = 0
    /\ max_length = 0
    /\ batch = NoBatch
    /\ forward_log = <<>>
    /\ ys = <<>>
    /\ embeddings = <<>>
    /\ stdout = <<>>
    /\ pc = "pack"

\* One iteration of `for encoding in encodings` (lines 168-179).
PackEncoding ==
    /\ pc = "pack"
    /\ idx < Len(encodings)
    /\ LET encoding     == encodings[idx + 1]
           seq_len      == EncodingLen(encoding)
           entry_tokens == Len(get_ids(encoding))
           tokens       == AddTokens(current_tokens, entry_tokens)
       IN  /\ input_ids' = Extend(input_ids, get_ids(encoding))
           /\ token_type_ids' = Extend(token_type_ids, get_type_ids(encoding))
           /\ position_ids' = Extend(position_ids, PositionRange(seq_len))
           /\ current_tokens' = tokens
           /\ max_length' = Max(max_length, entry_tokens)
           /\ cu_seq_lengths' = Push(cu_seq_lengths, tokens)
    /\ idx' = idx + 1
    /\ UNCHANGED << normalize_embeddings, encodings, batch, forward_log, ys,
                    embeddings, stdout, pc >>

\* The loop is exhausted: build the Batch and print (lines 181-189).
BuildBatch ==
    /\ pc = "pack"
    /\ idx = Len(encodings)
    /\ batch' = Batch(input_ids, token_type_ids, position_ids, cu_seq_lengths,
                      max_length)
    /\ stdout' = Append(stdout, Line("constructed batch from input", <<>>))
    /\ pc' = "forward"
    /\ UNCHANGED << normalize_embeddings, encodings, idx, input_ids,
                    token_type_ids, position_ids, cu_seq_lengths,
                    current_tokens, max_length, forward_log, ys, embeddings >>

\* The tensors model.forward may return for a batch: one pooled row for each of
\* the batch's sequences.
ForwardOutputs(b) == [1..(Len(b.cumulative_seq_lengths) - 1) -> PooledRows]

\* let ys = model.forward(batch)?;  the encoder returns Ok.
ForwardOk ==
    /\ pc = "forward"
    /\ forward_log' = Append(forward_log, batch)
    /\ ys' \in ForwardOutputs(batch)
    /\ pc' = "normalize"
    /\ UNCHANGED << normalize_embeddings, encodings, idx, input_ids,
                    token_type_ids, position_ids, cu_seq_lengths,
                    current_tokens, max_length, batch, embeddings, stdout >>

\* let ys = model.forward(batch)?;  the encoder returns Err, `?` returns it.
ForwardErr ==
    /\ pc = "forward"
    /\ forward_log' = Append(forward_log, batch)
    /\ pc' = "failed"
    /\ UNCHANGED << normalize_embeddings, encodings, idx, input_ids,
                    token_type_ids, position_ids, cu_seq_lengths,
                    current_tokens, max_length, batch, ys, embeddings, stdout >>

\* let embeddings = normalize_l2(&ys)?;  every tensor operation returns Ok.
NormalizeOkByFlag ==
    /\ pc = "normalize"
    /\ embeddings' = IF normalize_embeddings
                     THEN normalize_l2(ys)
                     ELSE [i \in 1..Len(ys) |->
                              [j \in 1..Len(ys[i]) |-> Raw(ys[i][j])]]
    /\ pc' = "print"
    /\ UNCHANGED << normalize_embeddings, encodings, idx, input_ids,
                    token_type_ids, position_ids, cu_seq_lengths,
                    current_tokens, max_length, batch, forward_log, ys, stdout >>
NormalizeOk ==
    /\ pc = "normalize"
    /\ embeddings' = normalize_l2(ys)
    /\ pc' = "print"
    /\ UNCHANGED << normalize_embeddings, encodings, idx, input_ids,
                    token_type_ids, position_ids, cu_seq_lengths,
                    current_tokens, max_length, batch, forward_log, ys, stdout >>

\* let embeddings = normalize_l2(&ys)?;  a tensor operation returns Err.
NormalizeErrPrintsRaw ==
    /\ pc = "normalize"
    /\ stdout' = Append(stdout, Line("pooled embeddings",
                    [i \in 1..Len(ys) |-> [j \in 1..Len(ys[i]) |-> Raw(ys[i][j])]]))
    /\ pc' = "failed"
    /\ UNCHANGED << normalize_embeddings, encodings, idx, input_ids,
                    token_type_ids, position_ids, cu_seq_lengths,
                    current_tokens, max_length, batch, forward_log, ys,
                    embeddings >>
NormalizeErr ==
    /\ pc = "normalize"
    /\ pc' = "failed"
    /\ UNCHANGED << normalize_embeddings, encodings, idx, input_ids,
                    token_type_ids, position_ids, cu_seq_lengths,
                    current_tokens, max_length, batch, forward_log, ys,
                    embeddings, stdout >>

\* println!("pooled embeddings ..."); println!("Took ..."); Ok(())
PrintEmbeddings ==
    /\ pc = "print"
    /\ stdout' = Append(Append(stdout, Line("pooled embeddings", embeddings)),
                        Line("Took", <<>>))
    /\ pc' = "done"
    /\ UNCHANGED << normalize_embeddings, encodings, idx, input_ids,
                    token_type_ids, position_ids, cu_seq_lengths,
                    current_tokens, max_length, batch, forward_log, ys,
                    embeddings >>

Next ==
    \/ PackEncoding
    \/ BuildBatch
    \/ ForwardOk
    \/ ForwardErr
    \/ NormalizeOk
    \/ NormalizeErr
    \/ PrintEmbeddings

Spec == Init /\ [][Next]_vars

\* ------------------------------------------------------------ properties
\* The Batch of lines 181-187 exists.
Built == pc \notin { "pack" }

\* Number of input encodings.
N == Len(encodings)

RECURSIVE SumLens(_, _)
\* l_0 + ... + l_{k-1}: the total length of the first k encodings
SumLens(encs, k) ==
    IF k = 0 THEN 0 ELSE SumLens(encs, k - 1) + Len(encs[k].ids)

\* Length of sequence i (1-based) as the batch's offsets give it.
SeqLength(b, i) == b.cumulative_seq_lengths[i + 1] - b.cumulative_seq_lengths[i]

\* The lines println! wrote with the embeddings.
PooledLines == { k \in 1..Len(stdout) : stdout[k].text = "pooled embeddings" }

\* C1: the built batch's cumulative_seq_lengths has N+1 entries, starts with 0,
\* is non-decreasing, and entry i is the sum of the lengths of encodings 0..i-1.
C1_CumulativeSeqLengths ==
    Built =>
        LET cu == batch.cumulative_seq_lengths
        IN  /\ Len(cu) = N + 1
            /\ cu[1] = 0
            /\ \A i \in 1..N : cu[i] <= cu[i + 1]
            /\ \A i \in 0..N : cu[i + 1] = SumLens(encodings, i)

\* Lengths [2, 1] have been packed into offsets [0, 2, 3].
C1_Witness ==
    /\ Built
    /\ N = 2
    /\ Len(encodings[1].ids) = 2
    /\ Len(encodings[2].ids) = 1
    /\ batch.cumulative_seq_lengths = <<0, 2, 3>>

\* C2: in the built batch input_ids, token_type_ids and position_ids have the
\* same length, which is the last element of cumulative_seq_lengths.
C2_FlatLengthsAgree ==
    Built =>
        LET cu == batch.cumulative_seq_lengths
        IN  /\ Len(batch.input_ids) = Len(batch.token_type_ids)
            /\ Len(batch.token_type_ids) = Len(batch.position_ids)
            /\ Len(batch.position_ids) = cu[Len(cu)]

\* A batch of two sequences with three tokens in all has been built.
C2_Witness ==
    /\ Built
    /\ N = 2
    /\ Len(batch.input_ids) = 3
    /\ Len(batch.position_ids) = 3

C4_ZeroLengthRejected ==
    \A k \in 1..Len(forward_log) :
        LET cu == forward_log[k].cumulative_seq_lengths
        IN  \A i \in 1..(Len(cu) - 1) : cu[i] # cu[i + 1]

\* C5: in a built batch of at least one sequence, max_length is the largest
\* sequence length: it is some sequence's length and no sequence is longer.
C5_MaxLength ==
    (Built /\ N >= 1) =>
        /\ \E i \in 1..N : batch.max_length = SeqLength(batch, i)
        /\ \A i \in 1..N : batch.max_length >= SeqLength(batch, i)

\* A batch whose longest sequence is not the last one has been built.
C5_Witness ==
    /\ Built
    /\ N = 2
    /\ SeqLength(batch, 1) = 2
    /\ SeqLength(batch, 2) = 1
    /\ batch.max_length = 2

\* C6: for every sequence i the slices of input_ids and token_type_ids over
\* [cu[i], cu[i+1]) are the ids and type ids of the i-th encoding, in order.
C6_OrderPreserved ==
    Built =>
        LET cu == batch.cumulative_seq_lengths
        IN  \A i \in 1..N :
              /\ SubSeq(batch.input_ids, cu[i] + 1, cu[i + 1]) = encodings[i].ids
              /\ SubSeq(batch.token_type_ids, cu[i] + 1, cu[i + 1])
                    = encodings[i].type_ids

\* Two encodings with different tokens have been packed.
C6_Witness ==
    /\ Built
    /\ N = 2
    /\ encodings[1].ids = <<1, 2>>
    /\ encodings[2].ids = <<2>>
    /\ batch.input_ids = <<1, 2, 2>>
    /\ batch.token_type_ids = <<0, 1, 1>>

\* C7: for every sequence i of length len, the position_ids over
\* [cu[i], cu[i+1]) are position_offset, ..., position_offset + len - 1: the
\* count restarts at position_offset with every sequence.
C7_PositionIds ==
    Built =>
        LET cu == batch.cumulative_seq_lengths
        IN  \A i \in 1..N :
              \A k \in 1..(cu[i + 1] - cu[i]) :
                 /\ cu[i] + k <= Len(batch.position_ids)
                 /\ batch.position_ids[cu[i] + k] = position_offset + (k - 1)

\* Two sequences of two tokens: the positions restart for the second one.
C7_Witness ==
    /\ Built
    /\ N = 2
    /\ batch.cumulative_seq_lengths = <<0, 2, 4>>
    /\ batch.position_ids = <<2, 3, 2, 3>>

\* C8: when normalize_l2 is given a zero row it either fails or returns the
\* row unchanged: the tensor it returns has no NaN and no Inf in that row.
C8_ZeroVectorPolicy ==
    pc \in { "print", "done" } =>
        \A i \in 1..Len(ys) :
            SumSqr(ys[i], Len(ys[i])) = 0 =>
                \A j \in 1..Len(embeddings[i]) : embeddings[i][j] = Raw(0)

\* C9: a failed run has printed no embeddings; embeddings are printed only by a
\* run that built the batch, got ys from the encoder and the final tensor from
\* normalize_l2; the encoder is called at most once, with the built batch, and
\* exactly once in every run that gets past it.
C9_Atomic ==
    /\ pc = "failed" => PooledLines = {}
    /\ PooledLines # {} =>
          /\ pc = "done"
          /\ Cardinality(PooledLines) = 1
          /\ \A k \in PooledLines : stdout[k].value = embeddings
          /\ \E k \in 1..Len(stdout) :
                /\ stdout[k].text = "constructed batch from input"
                /\ \A m \in PooledLines : k < m
    /\ Len(forward_log) <= 1
    /\ \A k \in 1..Len(forward_log) : forward_log[k] = batch
    /\ pc \in { "normalize", "print", "done", "failed" } => Len(forward_log) = 1
    /\ pc \in { "pack", "forward" } => forward_log = <<>>
    /\ pc = "done" => PooledLines # {}

\* normalize_l2 failed after the encoder returned two rows: the run is over and
\* only the batch line was printed.
C9_Witness ==
    /\ pc = "failed"
    /\ Len(ys) = 2
    /\ Len(forward_log) = 1
    /\ Len(stdout) = 1

====
